---- MODULE Spec2Model ----
(***************************************************************************)
(* Financial_Analyzer_Frontend: the client-side pipeline                   *)
(*   Upload (CategoryFileUpload) -> Processing (processAllFiles)           *)
(*   -> Results (ViewResultsPage)                                          *)
(* with its two stores, window.uploadedFiles and sessionStorage, the       *)
(* pending timers and the remote calls in flight.  Every handler is one    *)
(* action; an async function is cut at its awaits.                         *)
(***************************************************************************)
EXTENDS Integers, Sequences, FiniteSets, TLC

(***************************************************************************)
(* Bounds of the model.                                                    *)
(***************************************************************************)
\* File objects created by drops over the whole behaviour.
MaxFiles == 2

(***************************************************************************)
(* JavaScript values.                                                      *)
(***************************************************************************)
Null == [null |-> TRUE]
Undefined == [undefined |-> TRUE]
JNum(n) == [num |-> n]
JStr(s) == [str |-> s]

\* A string is modelled as a sequence of tokens; '' is the empty sequence.
EmptyString == << >>

\* !v for the values the pages test: null, undefined and '' are falsy.
Falsy(v) == v = Null \/ v = Undefined \/ v = JStr(EmptyString)

\* String.prototype.startsWith
StartsWith(s, prefix) ==
    /\ Len(s) >= Len(prefix)
    /\ SubSeq(s, 1, Len(prefix)) = prefix

ImagePrefix == <<"i", "m", "a", "g", "e", "/">>
ImagePng == <<"i", "m", "a", "g", "e", "/", "p", "n", "g">>
ImageBare == <<"i", "m", "a", "g", "e">>
ApplicationPdf == <<"a", "p", "p", "l", "i", "c", "a", "t", "i", "o", "n", "/", "p", "d", "f">>

\* The content types a dropped File can carry ('' when the browser knows none).
MimeTypes == {ImagePng, ImageBare, ApplicationPdf, EmptyString}

\* What react-dropzone hands to onDrop: no file, or one file of some type.
AcceptedFiles == {<< >>} \cup {<<t>> : t \in MimeTypes}

(***************************************************************************)
(* Routes and categories.                                                  *)
(***************************************************************************)
Home == "/"
UploadRoute == "/upload-documents"
ProcessingRoute == "/processing-documents"
ResultsRoute == "/view-results"
Routes == {Home, UploadRoute, ProcessingRoute, ResultsRoute}

FINANCIAL_CATEGORIES == {"operating-cost", "balance-sheet", "cash-flow", "profit"}

\* The categories whose drop zones the modelled user drops files on.
DropTargets == {"cash-flow", "profit"}

FileIds == 1 .. MaxFiles
\* Every processAllFiles invocation that awaits a call has marked a file of
\* its own, so no more than MaxFiles of them are alive at once.
RunIds == 1 .. MaxFiles

\* An UploadedFile object that does not exist (yet, or any more).
\* `calls` counts the POST requests sent with the file.
NoFile ==
    [category |-> "", type |-> EmptyString, processed |-> FALSE, calls |-> 0]

VARIABLES
    route,       \* the route the router shows
    requested,   \* the route last asked for (a redirect makes route differ)
    win,         \* window.uploadedFiles: sequence of UploadedFile references
    fileObj,     \* the UploadedFile objects, by reference
    nextId,      \* the next file reference a drop creates
    ss,          \* sessionStorage
    upload,      \* CategoryFileUpload's state (Upload page)
    previews,    \* object URLs created and not revoked
    handoffs,    \* pending setTimeout callbacks of handleUploadAll
    runs,        \* processAllFiles invocations awaiting a remote call
    navTimer,    \* a setTimeout(() => navigate('/view-results')) is pending
    inflight,    \* POST /api/process-document calls not yet resolved
    proc,        \* ProcessingDocumentsPage's state
    view         \* ViewResultsPage's state

vars == <<route, requested, win, fileObj, nextId, ss, upload, previews, handoffs, runs,
          navTimer, inflight, proc, view>>

(***************************************************************************)
(* Processing results and the remote endpoint.                             *)
(***************************************************************************)
\* Progress values are held in half percents, so that
\* 10 + (processed / total) * 90 is an integer for every total up to 4.
Percent(p) == 2 * p

Metric(v) == [value |-> v]
Entry(k, v) == [key |-> k, val |-> Metric(v)]
FinancialDataOf(entries) == [entries |-> entries]

\* Response bodies of a 2xx answer (ProcessingResult as the backend sends it).
PayloadRevenue ==
    [success |-> TRUE, ocr_text |-> <<"ocr">>,
     financial_data |-> FinancialDataOf(<<Entry("Revenue", JNum(1000))>>),
     error |-> Undefined]
PayloadRevenueLater ==
    [success |-> TRUE, ocr_text |-> <<"ocr">>,
     financial_data |-> FinancialDataOf(<<Entry("Revenue", JNum(2))>>),
     error |-> Undefined]
PayloadUnsuccessful ==
    [success |-> FALSE, ocr_text |-> EmptyString,
     financial_data |-> Undefined,
     error |-> JStr(<<"could not read the document">>)]
Payloads == {PayloadRevenue, PayloadRevenueLater, PayloadUnsuccessful}

\* How one axios.post can end: a 2xx response, an AxiosError (with the
\* response of a non-2xx status, whose body may carry an error text, or with
\* no response at all: network failure, timeout), or another thrown Error.
Outcomes ==
    {[kind |-> "response", data |-> d] : d \in Payloads}
    \cup {[kind |-> "axios", response |-> r] :
            r \in {Undefined,
                   [data |-> [error |-> Undefined]],
                   [data |-> [error |-> JStr(<<"E500">>)]]}}
    \cup {[kind |-> "thrown", message |-> <<"boom">>]}

\* file.file.name of the File behind reference f.
FileName(f) == ToString(f)

NetworkErrorMessage(f) == <<"Network error processing ", FileName(f)>>

\* error.response?.data?.error
ResponseBodyError(o) ==
    IF o.response = Undefined THEN Undefined ELSE o.response.data.error

\* A catch block that never reads the response body.
GenericMessage(o, f) == NetworkErrorMessage(f)

\* The message of the Error processFile throws for a failed call.
ThrownMessage(o, f) ==
    IF o.kind = "axios"
    THEN IF Falsy(ResponseBodyError(o))
         THEN NetworkErrorMessage(f)
         ELSE ResponseBodyError(o).str
    ELSE o.message

\* The result processAllFiles pushes when processFile throws.
ErrorResult(msg) ==
    [success |-> FALSE, ocr_text |-> EmptyString,
     financial_data |-> Undefined, error |-> JStr(msg)]

\* The result processFile returns for a file already marked processed.
SkippedResult ==
    [success |-> TRUE, ocr_text |-> <<"Already processed">>,
     financial_data |-> Undefined, error |-> JStr(EmptyString)]

\* A loop that stamps every answered call as a success.
RecordedAsSuccess(o, f) ==
    IF o.kind = "response" THEN [o.data EXCEPT !.success = TRUE]
    ELSE ErrorResult(ThrownMessage(o, f))

\* What the loop records for file f when its call ends with outcome o.
RecordedResult(o, f) ==
    IF o.kind = "response" THEN o.data ELSE ErrorResult(ThrownMessage(o, f))

\* 10 + (processed / total) * 90
ProgressAfter(processed, total) ==
    Percent(10) + (Percent(90) * processed) \div total

(***************************************************************************)
(* sessionStorage and JSON.                                                *)
(***************************************************************************)
\* JSON text is the token "json" followed by the value it encodes; any other
\* text does not parse.
JsonStringify(v) == <<"json", v>>
WellFormed(text) == Len(text) = 2 /\ text[1] = "json"
JsonParse(text) == text[2]

EmptyStorage ==
    [uploadedFilesMetadata |-> Null, processingResults |-> Null,
     processingComplete |-> Null, uploadedFiles |-> Null]

(***************************************************************************)
(* Component states.                                                       *)
(***************************************************************************)
\* CategoryFileUpload after useState: no file, not uploading, no error.
UploadInitial ==
    [uploadedFiles |-> << >>, uploading |-> FALSE, generalError |-> Null]

\* ProcessingDocumentsPage after useState / useRef.
ProcInitial ==
    [processedRef |-> FALSE, processingComplete |-> FALSE,
     processingProgress |-> 0, uploadedFiles |-> << >>, results |-> << >>,
     errors |-> << >>, isProcessing |-> FALSE]

\* ViewResultsPage after useState.
ViewInitial ==
    [uploadedFiles |-> << >>, processingResults |-> << >>,
     processingComplete |-> FALSE, isLoading |-> TRUE, error |-> Null]

\* A free slot of the run table.
IdleRun ==
    [pc |-> "idle", files |-> << >>, results |-> << >>, attached |-> FALSE]

(***************************************************************************)
(* The state as one record, so that a handler and the navigation it ends   *)
(* with compose.                                                           *)
(***************************************************************************)
Cur ==
    [route |-> route, requested |-> requested, win |-> win,
     fileObj |-> fileObj, nextId |-> nextId,
     ss |-> ss, upload |-> upload, previews |-> previews,
     handoffs |-> handoffs, runs |-> runs, navTimer |-> navTimer,
     inflight |-> inflight,
     proc |-> proc, view |-> view]

Assign(s) ==
    \E x \in {s} :
        /\ route' = x.route
        /\ requested' = x.requested
        /\ win' = x.win
        /\ fileObj' = x.fileObj
        /\ nextId' = x.nextId
        /\ ss' = x.ss
        /\ upload' = x.upload
        /\ previews' = x.previews
        /\ handoffs' = x.handoffs
        /\ runs' = x.runs
        /\ navTimer' = x.navTimer
        /\ inflight' = x.inflight
        /\ proc' = x.proc
        /\ view' = x.view

(***************************************************************************)
(* Navigation: the router unmounts the page shown and mounts the target,   *)
(* whose mount effect runs at once.                                        *)
(***************************************************************************)
\* Unmounting drops the component states; callbacks of unmounted components
\* stay scheduled, but their setState calls no longer reach a component.
Leave(s) ==
    [s EXCEPT
        !.upload = UploadInitial,
        !.proc = ProcInitial,
        !.view = ViewInitial,
        !.handoffs = [i \in DOMAIN s.handoffs |->
                        [s.handoffs[i] EXCEPT !.attached = FALSE]],
        !.runs = [r \in RunIds |-> [s.runs[r] EXCEPT !.attached = FALSE]]]

\* navigate('/upload-documents'): a fresh CategoryFileUpload.
EnterUpload(s) == [Leave(s) EXCEPT !.route = UploadRoute]

\* The slot a new invocation of processAllFiles takes.
Min(S) == CHOOSE x \in S : \A y \in S : x <= y

FreeRuns(s) == {r \in RunIds : s.runs[r].pc = "idle"}

\* A loop that advances the progress for successful files only.
PushCountingSuccesses(s, r, result) ==
    LET run == s.runs[r]
        processed == Len(run.results) + 1
    IN  [s EXCEPT
            !.runs[r].results = Append(@, result),
            !.proc.processingProgress =
                IF run.attached /\ result.success
                THEN ProgressAfter(processed, Len(run.files))
                ELSE @]

\* A loop that puts each new result in front of the earlier ones.
PushInFront(s, r, result) ==
    LET run == s.runs[r]
        processed == Len(run.results) + 1
    IN  [s EXCEPT
            !.runs[r].results = <<result>> \o @,
            !.proc.processingProgress =
                IF run.attached
                THEN ProgressAfter(processed, Len(run.files))
                ELSE @]

\* results.push(result); processed++; setProcessingProgress(...)
Push(s, r, result) ==
    LET run == s.runs[r]
        processed == Len(run.results) + 1
    IN  [s EXCEPT
            !.runs[r].results = Append(@, result),
            !.proc.processingProgress =
                IF run.attached
                THEN ProgressAfter(processed, Len(run.files))
                ELSE @]

\* Storage writes that set the flag before the results.
WriteCompletionFlagFirst(storage, results) ==
    LET first == [storage EXCEPT !.processingComplete = JStr(<<"true">>)]
    IN  <<first,
          [first EXCEPT !.processingResults = JStr(JsonStringify(results))]>>

\* The two sessionStorage.setItem calls at the end of processAllFiles: the
\* storage after each of them.
WriteCompletion(storage, results) ==
    LET first == [storage EXCEPT
                    !.processingResults = JStr(JsonStringify(results))]
    IN  <<first, [first EXCEPT !.processingComplete = JStr(<<"true">>)]>>

\* An end of processAllFiles that treats a failed file as fatal: the flag is
\* written and the timer armed only when every result is a success.
FinishFlagOnSuccess(s, r) ==
    LET run == s.runs[r]
        allOk == \A i \in 1 .. Len(run.results) : run.results[i].success
    IN  [s EXCEPT
            !.proc = IF run.attached
                     THEN [@ EXCEPT !.results = run.results,
                                    !.errors = << >>,
                                    !.isProcessing = FALSE,
                                    !.processingComplete = allOk,
                                    !.processingProgress = Percent(100)]
                     ELSE @,
            !.ss.processingResults = JStr(JsonStringify(run.results)),
            !.ss.processingComplete = IF allOk THEN JStr(<<"true">>) ELSE @,
            !.runs[r] = IdleRun,
            !.navTimer = IF allOk THEN TRUE ELSE @]

\* An end of processAllFiles that does not write the completion flag.
FinishWithoutFlag(s, r) ==
    LET run == s.runs[r]
    IN  [s EXCEPT
            !.proc = IF run.attached
                     THEN [@ EXCEPT !.results = run.results,
                                    !.errors = << >>,
                                    !.isProcessing = FALSE,
                                    !.processingComplete = TRUE,
                                    !.processingProgress = Percent(100)]
                     ELSE @,
            !.ss.processingResults = JStr(JsonStringify(run.results)),
            !.runs[r] = IdleRun,
            !.navTimer = TRUE]

\* An end of processAllFiles that leaves the navigation to the user.
FinishWithoutTimer(s, r) ==
    LET run == s.runs[r]
    IN  [s EXCEPT
            !.proc = IF run.attached
                     THEN [@ EXCEPT !.results = run.results,
                                    !.errors = << >>,
                                    !.isProcessing = FALSE,
                                    !.processingComplete = TRUE,
                                    !.processingProgress = Percent(100)]
                     ELSE @,
            !.ss.processingResults = JStr(JsonStringify(run.results)),
            !.ss.processingComplete = JStr(<<"true">>),
            !.runs[r] = IdleRun]

\* The end of processAllFiles, after the loop.
Finish(s, r) ==
    LET run == s.runs[r]
    IN  [s EXCEPT
            !.proc = IF run.attached
                     THEN [@ EXCEPT !.results = run.results,
                                    !.errors = << >>,
                                    !.isProcessing = FALSE,
                                    !.processingComplete = TRUE,
                                    !.processingProgress = Percent(100)]
                     ELSE @,
            !.ss = WriteCompletion(@, run.results)[2],
            !.runs[r] = IdleRun,
            !.navTimer = TRUE]

\* A processFile that sends the request without marking the file.
IssueCallUnmarked(s, r, f) ==
    [s EXCEPT
        !.fileObj[f].calls = @ + 1,
        !.inflight = @ \cup {[run |-> r, file |-> f]},
        !.runs[r].pc = "await"]

\* processFile up to axios.post: the file is marked, the request is sent.
IssueCall(s, r, f) ==
    [s EXCEPT
        !.fileObj[f].processed = TRUE,
        !.fileObj[f].calls = @ + 1,
        !.inflight = @ \cup {[run |-> r, file |-> f]},
        !.runs[r].pc = "await"]

\* A loop that a failed file ends.
RECURSIVE HaltOnFailure(_, _)
HaltOnFailure(s, r) ==
    LET run == s.runs[r]
        k == Len(run.results)
    IN  IF k = Len(run.files) \/ (k > 0 /\ ~run.results[k].success)
        THEN Finish(s, r)
        ELSE LET f == run.files[k + 1]
             IN  IF s.fileObj[f].processed
                 THEN HaltOnFailure(Push(s, r, SkippedResult), r)
                 ELSE IssueCall(s, r, f)

\* The for loop of processAllFiles from its current file on, up to the next
\* await of a remote call or to the end of the function.
RECURSIVE Advance(_, _)
Advance(s, r) ==
    LET run == s.runs[r]
        k == Len(run.results)
    IN  IF k = Len(run.files) THEN Finish(s, r)
        ELSE LET f == run.files[k + 1]
             IN  IF s.fileObj[f].processed
                 THEN Advance(Push(s, r, SkippedResult), r)
                 ELSE IssueCall(s, r, f)

\* files.filter(file => !file.processed)
Unprocessed(s, files) == SelectSeq(files, LAMBDA f : ~s.fileObj[f].processed)

\* processAllFiles, called with window.uploadedFiles non-empty.
ProcessAllFiles(s) ==
    LET files == s.win
        r == Min(FreeRuns(s))
        s1 == [s EXCEPT !.proc.isProcessing = TRUE,
                        !.proc.processingProgress = Percent(10),
                        !.proc.uploadedFiles = files]
        unprocessedFiles == Unprocessed(s, files)
    IN  IF Len(files) = 0 THEN s
        ELSE IF Len(unprocessedFiles) = 0
        THEN [s1 EXCEPT !.proc.isProcessing = FALSE, !.navTimer = TRUE]
        ELSE Advance([s1 EXCEPT !.runs[r] =
                        [pc |-> "loop", files |-> unprocessedFiles,
                         results |-> << >>, attached |-> TRUE]], r)

\* A mount effect that stays on the page when only the metadata of the files
\* is left in sessionStorage.
MountProcessingFromMetadata(s) ==
    LET files == s.win
    IN  IF Len(files) > 0
        THEN ProcessAllFiles([s EXCEPT !.proc.processedRef = TRUE,
                                       !.proc.uploadedFiles = files])
        ELSE IF ~Falsy(s.ss.uploadedFilesMetadata)
        THEN [s EXCEPT !.proc.processedRef = TRUE]
        ELSE EnterUpload(s)

\* The mount effect of ProcessingDocumentsPage (initializeProcessing).  With
\* no file in window.uploadedFiles both branches on uploadedFilesMetadata
\* navigate to the upload page.
MountProcessing(s) ==
    LET files == s.win
    IN  IF Len(files) > 0
        THEN ProcessAllFiles([s EXCEPT !.proc.processedRef = TRUE,
                                       !.proc.uploadedFiles = files])
        ELSE EnterUpload(s)

\* A results page that does not test the flag.
GateAlwaysOpen(storage) == TRUE

\* !isComplete is false: processingComplete is in sessionStorage.
ResultsGateOpen(storage) == ~Falsy(storage.processingComplete)

NoResultsError == <<"No processing results found. Please try again.">>
LoadFailedError == <<"Failed to load results. Please try again.">>

\* A loadResults whose catch block reports nothing.
MountResultsSwallowing(s) ==
    LET filesJson == s.ss.uploadedFiles
        resultsJson == s.ss.processingResults
        filesThrow == ~Falsy(filesJson) /\ ~WellFormed(filesJson.str)
        resultsThrow == ~Falsy(resultsJson) /\ ~WellFormed(resultsJson.str)
    IN  IF ~ResultsGateOpen(s.ss) THEN EnterUpload(s)
        ELSE [s EXCEPT !.view =
                [uploadedFiles |->
                    IF ~Falsy(filesJson) /\ ~filesThrow
                    THEN JsonParse(filesJson.str) ELSE << >>,
                 processingResults |->
                    IF ~filesThrow /\ ~Falsy(resultsJson) /\ ~resultsThrow
                    THEN JsonParse(resultsJson.str) ELSE << >>,
                 processingComplete |-> TRUE,
                 isLoading |-> FALSE,
                 error |->
                    IF ~filesThrow /\ Falsy(resultsJson)
                    THEN JStr(NoResultsError) ELSE Null]]

\* The mount effect of ViewResultsPage (loadResults).
MountResults(s) ==
    LET filesJson == s.ss.uploadedFiles
        resultsJson == s.ss.processingResults
        filesThrow == ~Falsy(filesJson) /\ ~WellFormed(filesJson.str)
        resultsThrow == ~Falsy(resultsJson) /\ ~WellFormed(resultsJson.str)
    IN  IF ~ResultsGateOpen(s.ss) THEN EnterUpload(s)
        ELSE [s EXCEPT !.view =
                [uploadedFiles |->
                    IF ~Falsy(filesJson) /\ ~filesThrow
                    THEN JsonParse(filesJson.str) ELSE << >>,
                 processingResults |->
                    IF ~filesThrow /\ ~Falsy(resultsJson) /\ ~resultsThrow
                    THEN JsonParse(resultsJson.str) ELSE << >>,
                 processingComplete |-> TRUE,
                 isLoading |-> FALSE,
                 error |->
                    IF filesThrow THEN JStr(LoadFailedError)
                    ELSE IF Falsy(resultsJson) THEN JStr(NoResultsError)
                    ELSE IF resultsThrow THEN JStr(LoadFailedError)
                    ELSE Null]]

\* The route's element is mounted and its mount effect runs.
Mount(s) ==
    CASE s.route = ProcessingRoute -> MountProcessing(s)
      [] s.route = ResultsRoute -> MountResults(s)
      [] OTHER -> s

\* navigate(target): nothing is remounted when the route does not change.
Navigate(s, target) ==
    IF s.route = target THEN [s EXCEPT !.requested = target]
    ELSE Mount([Leave(s) EXCEPT !.route = target, !.requested = target])

(***************************************************************************)
(* CategoryFileUpload.                                                     *)
(***************************************************************************)
\* An object with string keys is a sequence of [key, val] entries, in the
\* order in which the keys were first set (uploadedFiles is keyed by
\* category, combinedData by metric name).
HasKey(entries, key) == \E i \in 1 .. Len(entries) : entries[i].key = key

Lookup(entries, key) ==
    entries[CHOOSE i \in 1 .. Len(entries) : entries[i].key = key].val

\* {...prev, [key]: file}
Put(entries, key, val) ==
    IF HasKey(entries, key)
    THEN [i \in 1 .. Len(entries) |->
            IF entries[i].key = key THEN [key |-> key, val |-> val]
            ELSE entries[i]]
    ELSE Append(entries, [key |-> key, val |-> val])

\* delete newFiles[key]
Delete(entries, key) == SelectSeq(entries, LAMBDA e : e.key # key)

\* Object.values(uploadedFiles)
ObjectValues(entries) == [i \in 1 .. Len(entries) |-> entries[i].val]

\* A validation that lets every content type through.
AnyTypeIsImage(type) == TRUE

\* file.type.startsWith('image/')
IsImage(type) == StartsWith(type, ImagePrefix)

\* An onDrop that tags every file with one fixed category.
UploadedFileOfFixedCategory(category, type) ==
    [category |-> "cash-flow", type |-> type, processed |-> FALSE, calls |-> 0]

\* The UploadedFile object onDrop builds for `category`.
NewUploadedFile(category, type) ==
    [category |-> category, type |-> type, processed |-> FALSE, calls |-> 0]

OnlyImagesError == <<"Only image files are accepted. Please upload an image file.">>

\* A widget that keeps the drop zone of an occupied category.
OnDropAnywhere(category, acceptedFiles) ==
    /\ route = UploadRoute
    /\ IF Len(acceptedFiles) = 0 THEN UNCHANGED vars
       ELSE IF ~IsImage(acceptedFiles[1])
       THEN /\ upload' = [upload EXCEPT !.generalError = JStr(OnlyImagesError)]
            /\ UNCHANGED <<route, requested, win, fileObj, nextId, ss, previews, handoffs,
                           runs, navTimer, inflight, proc, view>>
       ELSE /\ nextId <= MaxFiles
            /\ fileObj' = [fileObj EXCEPT ![nextId] =
                              NewUploadedFile(category, acceptedFiles[1])]
            /\ previews' = previews \cup {nextId}
            /\ upload' = [upload EXCEPT
                            !.uploadedFiles = Put(@, category, nextId),
                            !.generalError = Null]
            /\ nextId' = nextId + 1
            /\ UNCHANGED <<route, requested, win, ss, handoffs, runs, navTimer, inflight, proc, view>>

\* An onDrop that creates the preview before it validates the type.
OnDropPreviewFirst(category, acceptedFiles) ==
    /\ route = UploadRoute
    /\ ~HasKey(upload.uploadedFiles, category)
    /\ IF Len(acceptedFiles) = 0 THEN UNCHANGED vars
       ELSE /\ nextId <= MaxFiles
            /\ previews' = previews \cup {nextId}
            /\ nextId' = nextId + 1
            /\ IF ~IsImage(acceptedFiles[1])
               THEN /\ upload' = [upload EXCEPT
                                    !.generalError = JStr(OnlyImagesError)]
                    /\ UNCHANGED fileObj
               ELSE /\ fileObj' = [fileObj EXCEPT ![nextId] =
                                      NewUploadedFile(category, acceptedFiles[1])]
                    /\ upload' = [upload EXCEPT
                                    !.uploadedFiles = Put(@, category, nextId),
                                    !.generalError = Null]
            /\ UNCHANGED <<route, requested, win, ss, handoffs, runs, navTimer, inflight, proc, view>>

\* onDrop(category)(acceptedFiles).  The drop zone of a category is rendered
\* only while the category holds no file.
OnDrop(category, acceptedFiles) ==
    /\ route = UploadRoute
    /\ ~HasKey(upload.uploadedFiles, category)
    /\ IF Len(acceptedFiles) = 0 THEN UNCHANGED vars
       ELSE IF ~IsImage(acceptedFiles[1])
       THEN /\ upload' = [upload EXCEPT !.generalError = JStr(OnlyImagesError)]
            /\ UNCHANGED <<route, requested, win, fileObj, nextId, ss, previews, handoffs,
                           runs, navTimer, inflight, proc, view>>
       ELSE /\ nextId <= MaxFiles
            /\ fileObj' = [fileObj EXCEPT ![nextId] =
                              NewUploadedFile(category, acceptedFiles[1])]
            /\ previews' = previews \cup {nextId}
            /\ upload' = [upload EXCEPT
                            !.uploadedFiles = Put(@, category, nextId),
                            !.generalError = Null]
            /\ nextId' = nextId + 1
            /\ UNCHANGED <<route, requested, win, ss, handoffs, runs, navTimer, inflight, proc, view>>

\* A removal that keeps the object URL of the preview.
RemoveWithoutRevoke(category) ==
    /\ route = UploadRoute
    /\ HasKey(upload.uploadedFiles, category)
    /\ ~upload.uploading
    /\ upload' = [upload EXCEPT !.uploadedFiles = Delete(@, category)]
    /\ fileObj' = [fileObj EXCEPT ![Lookup(upload.uploadedFiles, category)] = NoFile]
    /\ UNCHANGED <<route, requested, win, nextId, ss, previews, handoffs, runs,
                   navTimer, inflight, proc, view>>

\* handleRemoveFile(category), behind the Remove button of a held file.
HandleRemoveFile(category) ==
    /\ route = UploadRoute
    /\ HasKey(upload.uploadedFiles, category)
    /\ ~upload.uploading
    /\ previews' = previews \ {Lookup(upload.uploadedFiles, category)}
    /\ upload' = [upload EXCEPT !.uploadedFiles = Delete(@, category)]
    /\ fileObj' = [fileObj EXCEPT ![Lookup(upload.uploadedFiles, category)] = NoFile]
    /\ UNCHANGED <<route, requested, win, nextId, ss, handoffs, runs, navTimer,
                   inflight, proc, view>>

\* A proceed button that does not look at the files.
AlwaysProceed == TRUE

\* Object.keys(uploadedFiles).length > 0
AtLeastOneFileUploaded == Len(upload.uploadedFiles) > 0

\* handleUploadAll, behind the proceed button.
HandleUploadAll ==
    /\ route = UploadRoute
    /\ AtLeastOneFileUploaded
    /\ ~upload.uploading
    /\ upload' = [upload EXCEPT !.uploading = TRUE, !.generalError = Null]
    /\ handoffs' = Append(handoffs,
                      [files |-> ObjectValues(upload.uploadedFiles),
                       attached |-> TRUE])
    /\ UNCHANGED <<route, requested, win, fileObj, nextId, ss, previews, runs, navTimer,
                   inflight, proc, view>>

\* metadataForStorage of handleUploadComplete
MetadataForStorage(s, files) ==
    [i \in 1 .. Len(files) |->
        [id |-> files[i],
         category |-> s.fileObj[files[i]].category,
         originalFileName |-> FileName(files[i]),
         fileType |-> s.fileObj[files[i]].type]]

\* handleUploadComplete(files) of UploadDocumentsPage
HandleUploadComplete(s, files) ==
    Navigate([s EXCEPT
                !.win = files,
                !.ss.uploadedFilesMetadata =
                    JStr(JsonStringify(MetadataForStorage(s, files)))],
             ProcessingRoute)

\* The setTimeout callback of handleUploadAll: setUploading(false) and
\* onComplete(files).
HandoffTimer ==
    /\ Len(handoffs) > 0
    /\ LET h == Head(handoffs)
           s1 == [Cur EXCEPT
                    !.handoffs = Tail(@),
                    !.upload.uploading = IF h.attached THEN FALSE ELSE @]
       IN  Assign(HandleUploadComplete(s1, h.files))

(***************************************************************************)
(* ProcessingDocumentsPage.                                                *)
(***************************************************************************)
\* The awaited axios.post of call c ends with outcome o; the loop goes on.
Resolve(c, o) ==
    /\ c \in inflight
    /\ LET s1 == [Cur EXCEPT !.inflight = @ \ {c}]
       IN  Assign(Advance(Push(s1, c.run, RecordedResult(o, c.file)), c.run))

\* The setTimeout callback of processAllFiles.  Timers pending together are
\* held as one: a second one does what the user's own navigation to
\* /view-results does.
TimerNavigate ==
    /\ navTimer
    /\ Assign(Navigate([Cur EXCEPT !.navTimer = FALSE], ResultsRoute))

\* handleManualContinue, behind the View Results button.
HandleManualContinue ==
    /\ route = ProcessingRoute
    /\ proc.processingComplete
    /\ ~proc.isProcessing
    /\ Assign(Navigate(Cur, ResultsRoute))

(***************************************************************************)
(* ViewResultsPage.                                                        *)
(***************************************************************************)
\* The three sessionStorage.removeItem calls of handleStartOver: the storage
\* after each of them.
ClearSession(storage) ==
    LET first == [storage EXCEPT !.uploadedFilesMetadata = Null]
        second == [first EXCEPT !.processingComplete = Null]
    IN  <<first, second, [second EXCEPT !.processingResults = Null]>>

\* A start over that leaves window.uploadedFiles as it is.
StartOverKeepingFiles ==
    /\ route = ResultsRoute
    /\ ~view.isLoading
    /\ Assign(Navigate([Cur EXCEPT
                          !.ss.uploadedFilesMetadata = Null,
                          !.ss.processingComplete = Null,
                          !.ss.processingResults = Null],
                       UploadRoute))

\* handleStartOver, behind the Upload New Documents button.
HandleStartOver ==
    /\ route = ResultsRoute
    /\ ~view.isLoading
    /\ Assign(Navigate([Cur EXCEPT
                          !.ss = ClearSession(@)[3],
                          !.win = << >>],
                       UploadRoute))

\* An aggregator that never upgrades a stored metric without a value.
InsertOnlyWhenAbsent(combinedData, key, metric) == ~HasKey(combinedData, key)

\* An aggregator in which the later result wins.
LastWriterWins(combinedData, key, metric) == TRUE

\* !combinedData[key] ||
\*   (combinedData[key].value === undefined && value.value !== undefined)
ShouldInsert(combinedData, key, metric) ==
    \/ ~HasKey(combinedData, key)
    \/ /\ Lookup(combinedData, key).value = Undefined
       /\ metric.value # Undefined

\* Object.entries(result.financial_data).forEach(...), from entry i on.
RECURSIVE MergeEntries(_, _, _)
MergeEntries(combinedData, entries, i) ==
    IF i > Len(entries) THEN combinedData
    ELSE MergeEntries(
             IF ShouldInsert(combinedData, entries[i].key, entries[i].val)
             THEN Put(combinedData, entries[i].key, entries[i].val)
             ELSE combinedData,
             entries, i + 1)

\* An aggregator that reads the metrics of failed results too.
RECURSIVE MergeAllResults(_, _, _)
MergeAllResults(combinedData, results, i) ==
    IF i > Len(results) THEN combinedData
    ELSE MergeAllResults(
             IF results[i].financial_data # Undefined
             THEN MergeEntries(combinedData, results[i].financial_data.entries, 1)
             ELSE combinedData,
             results, i + 1)

\* processingResults.forEach(...), from result i on.
RECURSIVE MergeResults(_, _, _)
MergeResults(combinedData, results, i) ==
    IF i > Len(results) THEN combinedData
    ELSE MergeResults(
             IF results[i].success /\ results[i].financial_data # Undefined
             THEN MergeEntries(combinedData, results[i].financial_data.entries, 1)
             ELSE combinedData,
             results, i + 1)

\* getFinancialData(): the metrics of all results, as an object keyed by name.
GetFinancialData(results) == MergeResults(<< >>, results, 1)

\* processingResults.filter(pred).length
CountWhere(results, wanted) ==
    Cardinality({i \in 1 .. Len(results) : results[i].success = wanted})

\* getUploadedFilesStats()
GetUploadedFilesStats(v) ==
    IF Len(v.uploadedFiles) = 0
    THEN [count |-> 0, successCount |-> 0, errorCount |-> 0]
    ELSE [count |-> Len(v.uploadedFiles),
          successCount |-> CountWhere(v.processingResults, TRUE),
          errorCount |-> CountWhere(v.processingResults, FALSE)]

\* The details panel of one result: the Alert with result.error when that is
\* truthy, the OCR preview otherwise.
DetailsAlert(result) == IF Falsy(result.error) THEN Null ELSE result.error

\* The title of the details panel of result number index (counted from 1):
\* uploadedFiles[index]?.file.name || `Document ${index + 1}`.  The entries
\* of uploadedFiles are what was parsed from the stored text.
DetailsTitle(v, index) ==
    IF /\ index <= Len(v.uploadedFiles)
       /\ ~Falsy(v.uploadedFiles[index].file.name)
    THEN v.uploadedFiles[index].file.name.str
    ELSE <<"Document ", ToString(index)>>

\* The results page is rendered (not the spinner).
ResultsShown == route = ResultsRoute /\ ~view.isLoading

(***************************************************************************)
(* The Key Financial Metrics card and the charts of the results page.      *)
(***************************************************************************)
DigitChars == <<"0", "1", "2", "3", "4", "5", "6", "7", "8", "9">>

\* The decimal digits of a natural number.
RECURSIVE DigitsOf(_)
DigitsOf(n) ==
    IF n < 10 THEN <<DigitChars[n + 1]>>
    ELSE Append(DigitsOf(n \div 10), DigitChars[(n % 10) + 1])

\* en-US grouping: a comma before every group of three digits.
RECURSIVE GroupThousands(_)
GroupThousands(n) ==
    IF n < 1000 THEN DigitsOf(n)
    ELSE GroupThousands(n \div 1000)
         \o <<",", DigitChars[((n % 1000) \div 100) + 1],
                   DigitChars[((n % 100) \div 10) + 1],
                   DigitChars[(n % 10) + 1]>>

\* A formatter without digit grouping.
FormatUngrouped(value) ==
    IF value.num < 0 THEN <<"-", "$">> \o DigitsOf(0 - value.num)
    ELSE <<"$">> \o DigitsOf(value.num)

\* formatCurrency(value) of a whole number: Intl.NumberFormat('en-US',
\* {style: 'currency', currency: 'USD', maximumFractionDigits: 0}).
FormatCurrency(value) ==
    IF value.num < 0 THEN <<"-", "$">> \o GroupThousands(0 - value.num)
    ELSE <<"$">> \o GroupThousands(value.num)

LowerCaseLetters ==
    <<"a", "b", "c", "d", "e", "f", "g", "h", "i", "j", "k", "l", "m",
      "n", "o", "p", "q", "r", "s", "t", "u", "v", "w", "x", "y", "z">>
UpperCaseLetters ==
    <<"A", "B", "C", "D", "E", "F", "G", "H", "I", "J", "K", "L", "M",
      "N", "O", "P", "Q", "R", "S", "T", "U", "V", "W", "X", "Y", "Z">>

\* String.prototype.toUpperCase of one character.
ToUpperCase(c) ==
    IF \E i \in 1 .. Len(LowerCaseLetters) : LowerCaseLetters[i] = c
    THEN UpperCaseLetters[CHOOSE i \in 1 .. Len(LowerCaseLetters) :
                              LowerCaseLetters[i] = c]
    ELSE c

\* word.charAt(0).toUpperCase() + word.slice(1)
CapitalizeWord(word) ==
    IF Len(word) = 0 THEN word
    ELSE <<ToUpperCase(word[1])>> \o SubSeq(word, 2, Len(word))

\* key.split('_').map(capitalize).join(' '), from character i on, with the
\* word read so far.
RECURSIVE LabelFrom(_, _, _)
LabelFrom(chars, i, word) ==
    IF i > Len(chars) THEN CapitalizeWord(word)
    ELSE IF chars[i] = "_"
         THEN CapitalizeWord(word) \o <<" ">> \o LabelFrom(chars, i + 1, << >>)
         ELSE LabelFrom(chars, i + 1, Append(word, chars[i]))

\* The characters of the metric names that occur.
KeyChars(key) ==
    CASE key = "Revenue" -> <<"R", "e", "v", "e", "n", "u", "e">>
      [] key = "Profit" -> <<"P", "r", "o", "f", "i", "t">>
      [] key = "revenue" -> <<"r", "e", "v", "e", "n", "u", "e">>
      [] key = "income" -> <<"i", "n", "c", "o", "m", "e">>
      [] key = "profit" -> <<"p", "r", "o", "f", "i", "t">>
      [] key = "assets" -> <<"a", "s", "s", "e", "t", "s">>
      [] key = "cash_flow" -> <<"c", "a", "s", "h", "_", "f", "l", "o", "w">>
      [] key = "operating_cost" ->
            <<"o", "p", "e", "r", "a", "t", "i", "n", "g", "_", "c", "o", "s", "t">>

MetricLabel(key) == LabelFrom(KeyChars(key), 1, << >>)

\* The h5 text of a metric: formatCurrency for a number, 'N/A' for a missing
\* value, a non-numeric text as it is.  (The metric values of the responses
\* considered are numbers or undefined.)
NotAvailable == <<"N", "/", "A">>
MetricText(metric) ==
    IF "num" \in DOMAIN metric.value THEN FormatCurrency(metric.value)
    ELSE IF Falsy(metric.value) THEN NotAvailable
    ELSE metric.value.str

KnownMetricKeys ==
    <<"revenue", "income", "profit", "assets", "cash_flow", "operating_cost">>

MetricCard(key, metric) ==
    [label |-> MetricLabel(key), text |-> MetricText(metric)]

\* The cards of Key Financial Metrics: the known keys first, then every
\* other entry of financialData in insertion order.
MetricCards(financialData) ==
    LET known == SelectSeq(KnownMetricKeys,
                           LAMBDA k : HasKey(financialData, k))
        others == SelectSeq(financialData,
                     LAMBDA e : \A i \in 1 .. Len(KnownMetricKeys) :
                                   KnownMetricKeys[i] # e.key)
    IN  [i \in 1 .. Len(known) |->
            MetricCard(known[i], Lookup(financialData, known[i]))]
        \o [i \in 1 .. Len(others) |-> MetricCard(others[i].key, others[i].val)]

\* sampleData of FinancialCharts.
SampleData ==
    [periods |-> <<"Q1 2024", "Q2 2024", "Q3 2024", "Q4 2024", "Q1 2025">>,
     cashFlowOperating |-> <<120000, 135000, 150000, 142000, 160000>>,
     cashInflows |->
        [operatingActivities |-> <<200000, 220000, 240000, 230000, 250000>>,
         investingActivities |-> <<50000, 30000, 40000, 60000, 45000>>,
         financingActivities |-> <<80000, 90000, 70000, 85000, 95000>>],
     cashOutflows |->
        [operatingActivities |-> <<80000, 85000, 90000, 88000, 90000>>,
         investingActivities |-> <<70000, 65000, 75000, 80000, 85000>>,
         financingActivities |-> <<60000, 70000, 65000, 75000, 80000>>],
     netIncomeComponents |->
        [labels |-> <<"Net Income", "Depreciation", "Changes in Working Capital",
                      "Other Adjustments", "Cash from Operations">>,
         values |-> <<100000, 30000, -15000, 45000, 160000>>],
     financialMetrics |->
        <<Entry("Revenue", JNum(15383073)), Entry("Cost", JNum(6490407)),
          Entry("Gross Profit", JNum(8883606)),
          Entry("Operating Expenses", JNum(4493916)),
          Entry("Operating Income", JNum(4399690)),
          Entry("Net Income", JNum(5307315))>>]

\* The data prop the results page gives to FinancialCharts.
ChartsProp(financialData) ==
    [periods |-> << >>,
     cashFlowOperating |-> << >>,
     cashInflows |-> [operatingActivities |-> << >>,
                      investingActivities |-> << >>,
                      financingActivities |-> << >>],
     cashOutflows |-> [operatingActivities |-> << >>,
                       investingActivities |-> << >>,
                       financingActivities |-> << >>],
     netIncomeComponents |-> [labels |-> << >>, values |-> << >>],
     financialMetrics |-> financialData]

\* ({ data = sampleData, loading }): the default applies to a prop that is
\* undefined only.
ChartsData(prop) == IF prop = Undefined THEN SampleData ELSE prop

\* values.map(val => -val)
Negated(values) == [i \in 1 .. Len(values) |-> 0 - values[i]]

\* stackedAreaData: the labels and the data of the six datasets.
StackedAreaData(data) ==
    [labels |-> data.periods,
     datasets |-> <<data.cashInflows.operatingActivities,
                    data.cashInflows.investingActivities,
                    data.cashInflows.financingActivities,
                    Negated(data.cashOutflows.operatingActivities),
                    Negated(data.cashOutflows.investingActivities),
                    Negated(data.cashOutflows.financingActivities)>>]

\* createWaterfallData(): the labels and the data of the one dataset.
CreateWaterfallData(data) ==
    [labels |-> data.netIncomeComponents.labels,
     datasets |-> <<data.netIncomeComponents.values>>]

\* The data FinancialCharts works with on the results page.
ResultsChartsData ==
    ChartsData(ChartsProp(GetFinancialData(view.processingResults)))

\* The banner under the title: the error when there is one, the success
\* message otherwise.
AnalysisComplete == <<"Analysis complete! Review your financial insights below.">>
Banner(v) ==
    IF ~Falsy(v.error) THEN [severity |-> "error", text |-> v.error.str]
    ELSE [severity |-> "success", text |-> AnalysisComplete]

(***************************************************************************)
(* The user and the browser.                                               *)
(***************************************************************************)
\* In-app navigation (a link, the back and forward buttons).
UserNavigate(target) ==
    /\ target # route
    /\ Assign(Navigate(Cur, target))

\* A full page load at `target`: script memory is lost, sessionStorage stays.
Loaded(target) ==
    [route |-> target, requested |-> target, win |-> << >>,
     fileObj |-> [f \in FileIds |-> NoFile], nextId |-> nextId, ss |-> ss,
     upload |-> UploadInitial, previews |-> {}, handoffs |-> << >>,
     runs |-> [r \in RunIds |-> IdleRun], navTimer |-> FALSE,
     inflight |-> {},
     proc |-> ProcInitial, view |-> ViewInitial]

Reload(target) == Assign(Mount(Loaded(target)))

Init ==
    /\ route = Home
    /\ requested = Home
    /\ win = << >>
    /\ fileObj = [f \in FileIds |-> NoFile]
    /\ nextId = 1
    /\ ss = EmptyStorage
    /\ upload = UploadInitial
    /\ previews = {}
    /\ handoffs = << >>
    /\ runs = [r \in RunIds |-> IdleRun]
    /\ navTimer = FALSE
    /\ inflight = {}
    /\ proc = ProcInitial
    /\ view = ViewInitial

Next ==
    \/ \E c \in DropTargets, a \in AcceptedFiles : OnDrop(c, a)
    \/ \E c \in FINANCIAL_CATEGORIES : HandleRemoveFile(c)
    \/ HandleUploadAll
    \/ HandoffTimer
    \/ \E c \in inflight, o \in Outcomes : Resolve(c, o)
    \/ TimerNavigate
    \/ HandleManualContinue
    \/ HandleStartOver
    \/ \E t \in Routes : UserNavigate(t)
    \/ \E t \in Routes : Reload(t)

Spec == Init /\ [][Next]_vars

(***************************************************************************)
(* The results page over the stored results of a finished flow: the        *)
(* browser is loaded at /view-results with what a run over one to MaxFiles *)
(* files can have left in sessionStorage, for every list of response       *)
(* bodies and failures the aggregator distinguishes.                       *)
(***************************************************************************)
\* A 2xx body whose Revenue metric carries no value.
PayloadRevenueUndefined ==
    [success |-> TRUE, ocr_text |-> <<"ocr">>,
     financial_data |-> FinancialDataOf(<<Entry("Revenue", Undefined)>>),
     error |-> Undefined]

\* A 2xx body with two metrics.
PayloadTwoMetrics ==
    [success |-> TRUE, ocr_text |-> <<"ocr">>,
     financial_data |->
        FinancialDataOf(<<Entry("Profit", JNum(5)), Entry("Revenue", JNum(3))>>),
     error |-> Undefined]

\* A 2xx body with success = false that still carries a metric.
PayloadFailedWithData ==
    [success |-> FALSE, ocr_text |-> EmptyString,
     financial_data |-> FinancialDataOf(<<Entry("Profit", JNum(7))>>),
     error |-> JStr(<<"analysis incomplete">>)]

StoredResults ==
    {PayloadRevenue, PayloadRevenueLater, PayloadRevenueUndefined,
     PayloadTwoMetrics, PayloadFailedWithData, ErrorResult(<<"E500">>)}

MetricKeys == {"Revenue", "Profit"}

StoredResultLists ==
    UNION {[1 .. n -> StoredResults] : n \in 1 .. MaxFiles}

\* sessionStorage at the end of a flow whose run recorded `results`.
StorageAfterFlow(results) ==
    [uploadedFilesMetadata |->
        JStr(JsonStringify(
            [i \in 1 .. Len(results) |->
                [id |-> i, category |-> "cash-flow",
                 originalFileName |-> FileName(i), fileType |-> ImagePng]])),
     processingResults |-> JStr(JsonStringify(results)),
     processingComplete |-> JStr(<<"true">>),
     uploadedFiles |-> Null]

\* The state of a page just loaded at `target` with sessionStorage `storage`.
LoadedWith(target, storage, created) ==
    Mount([route |-> target, requested |-> target, win |-> << >>,
           fileObj |-> [f \in FileIds |-> NoFile], nextId |-> created + 1,
           ss |-> storage,
           upload |-> UploadInitial, previews |-> {}, handoffs |-> << >>,
           runs |-> [r \in RunIds |-> IdleRun], navTimer |-> FALSE,
           inflight |-> {},
           proc |-> ProcInitial, view |-> ViewInitial])

InitFrom(s) ==
    /\ route = s.route
    /\ requested = s.requested
    /\ win = s.win
    /\ fileObj = s.fileObj
    /\ nextId = s.nextId
    /\ ss = s.ss
    /\ upload = s.upload
    /\ previews = s.previews
    /\ handoffs = s.handoffs
    /\ runs = s.runs
    /\ navTimer = s.navTimer
    /\ inflight = s.inflight
    /\ proc = s.proc
    /\ view = s.view

InitAgg ==
    \E results \in StoredResultLists :
        InitFrom(LoadedWith(ResultsRoute, StorageAfterFlow(results),
                            Len(results)))

NextAgg ==
    \/ HandleStartOver
    \/ \E t \in Routes : UserNavigate(t)
    \/ \E t \in Routes : Reload(t)

SpecAgg == InitAgg /\ [][NextAgg]_vars

(***************************************************************************)
(* Progress.  The document stays loaded; every pending remote call ends    *)
(* (with a response, an error, or the transport's timeout) and every       *)
(* pending setTimeout callback runs.  The user's steps are not forced.     *)
(***************************************************************************)
ResolveSome == \E c \in inflight, o \in Outcomes : Resolve(c, o)

NextLive ==
    \/ \E c \in DropTargets, a \in AcceptedFiles : OnDrop(c, a)
    \/ \E c \in FINANCIAL_CATEGORIES : HandleRemoveFile(c)
    \/ HandleUploadAll
    \/ HandoffTimer
    \/ ResolveSome
    \/ TimerNavigate
    \/ HandleManualContinue
    \/ HandleStartOver
    \/ \E t \in Routes : UserNavigate(t)

SpecLive ==
    /\ Init
    /\ [][NextLive]_vars
    /\ WF_vars(ResolveSome)
    /\ WF_vars(TimerNavigate)
    /\ WF_vars(HandoffTimer)

(***************************************************************************)
(* The results page over stored values of any shape: a page loaded with    *)
(* session storage whose entries are missing, unparsable or well formed.   *)
(***************************************************************************)
\* A stored text JSON.parse throws on.
UnparsableText == <<"[{\"success\":">>

StoredFlags == {Null, JStr(<<"true">>)}
StoredResultTexts ==
    {Null, JStr(UnparsableText)}
        \cup {JStr(JsonStringify(results)) : results \in StoredResultLists}
StoredFileTexts == {Null, JStr(UnparsableText), JStr(JsonStringify(<< >>))}

StoredStorages ==
    {[uploadedFilesMetadata |-> Null, processingResults |-> r,
      processingComplete |-> c, uploadedFiles |-> f] :
        r \in StoredResultTexts, c \in StoredFlags, f \in StoredFileTexts}

InitStore ==
    \E storage \in StoredStorages, t \in Routes :
        InitFrom(LoadedWith(t, storage, 0))

NextStore ==
    \/ HandleStartOver
    \/ \E t \in Routes : UserNavigate(t)
    \/ \E t \in Routes : Reload(t)

SpecStore == InitStore /\ [][NextStore]_vars

(***************************************************************************)
(* Properties.                                                             *)
(***************************************************************************)
\* The results of run r after a step: the run's own list while it goes on,
\* the list written to sessionStorage when the step ended it.
ResultsAfter(r) ==
    IF runs'[r].pc = "idle"
    THEN JsonParse(ss'.processingResults.str)
    ELSE runs'[r].results

CallsOf(r) == {c \in inflight : c.run = r}

\* C1: while a run waits for the call of one of its files, that call is the
\* only processing call in flight: no call for a later file of the run has
\* been issued, and there is no second call in flight.
C1_CallsSerialized ==
    \A r \in RunIds :
        runs[r].pc = "await" =>
            /\ Len(runs[r].results) < Len(runs[r].files)
            /\ inflight =
                  {[run |-> r, file |-> runs[r].files[Len(runs[r].results) + 1]]}

\* The part of C1 that holds: the calls one run issues itself are serialized.
C1_OwnCallsSerialized ==
    \A r \in RunIds :
        /\ Cardinality(CallsOf(r)) <= 1
        /\ runs[r].pc = "await" <=> CallsOf(r) # {}
        /\ \A c \in CallsOf(r) :
              /\ Len(runs[r].results) < Len(runs[r].files)
              /\ c.file = runs[r].files[Len(runs[r].results) + 1]

\* C2: whatever the outcome of a call, the run does not end before it has a
\* result for each of its files; the step that ends a run over N files writes
\* exactly N results to sessionStorage, and by then a call has been sent for
\* every file of the run.
C2_FailureDoesNotHalt ==
    [][\A c \in inflight, o \in Outcomes :
          Resolve(c, o) =>
            LET run == runs[c.run]
            IN  IF runs'[c.run].pc # "idle"
                THEN /\ runs'[c.run].pc = "await"
                     /\ runs'[c.run].files = run.files
                     /\ Len(runs'[c.run].results) < Len(run.files)
                     /\ CallsOf(c.run)' # {}
                ELSE /\ WellFormed(ss'.processingResults.str)
                     /\ Len(JsonParse(ss'.processingResults.str)) = Len(run.files)
                     /\ \A i \in 1 .. Len(run.files) :
                           fileObj'[run.files[i]].calls >= 1]_vars

C2_Witness ==
    /\ ~Falsy(ss.processingResults)
    /\ Len(win) = 2
    /\ \A i \in 1 .. 2 : fileObj[win[i]].calls = 1
    /\ LET results == JsonParse(ss.processingResults.str)
       IN  /\ Len(results) = 2
           /\ ~results[1].success
           /\ results[2] = PayloadRevenue

\* C3: the step that ends a run whose calls all succeeded leaves the flag
\* processingComplete = 'true' in sessionStorage and, on the page that started
\* the run, a progress of exactly 100.
C3_AllSuccessEndsAt100 ==
    [][\A c \in inflight, o \in Outcomes :
          ( /\ Resolve(c, o)
            /\ runs'[c.run].pc = "idle"
            /\ o.kind = "response" /\ o.data.success
            /\ \A i \in 1 .. Len(runs[c.run].results) :
                  runs[c.run].results[i].success )
          => /\ ss'.processingComplete = JStr(<<"true">>)
             /\ runs[c.run].attached =>
                   /\ proc'.processingProgress = Percent(100)
                   /\ proc'.processingComplete]_vars

C3_Witness ==
    /\ route = ProcessingRoute
    /\ proc.processingComplete
    /\ proc.processingProgress = Percent(100)
    /\ Len(proc.results) = 2
    /\ \A i \in 1 .. 2 : proc.results[i].success
    /\ ss.processingComplete = JStr(<<"true">>)

\* C4: the results page is never shown while sessionStorage holds no
\* processingComplete, and a request for /view-results made without the flag
\* ends on /upload-documents.
C4_ResultsGated ==
    /\ route = ResultsRoute => ~Falsy(ss.processingComplete)
    /\ (requested = ResultsRoute /\ Falsy(ss.processingComplete))
          => (route = UploadRoute /\ view = ViewInitial)

C4_Witness ==
    /\ requested = ResultsRoute
    /\ route = UploadRoute
    /\ Falsy(ss.processingComplete)

C6_OneFilePerCategory ==
    LET held == upload.uploadedFiles
    IN  /\ \A i \in 1 .. Len(held) :
              fileObj[held[i].val].category = held[i].key
        /\ \A i, j \in 1 .. Len(held) :
              i # j => /\ held[i].key # held[j].key
                       /\ fileObj[held[i].val].category
                            # fileObj[held[j].val].category

\* File 1 was dropped and removed; file 2 is held.
C6_Witness ==
    /\ route = UploadRoute
    /\ previews = {2}
    /\ fileObj[1] = NoFile
    /\ Len(upload.uploadedFiles) = 1
    /\ upload.uploadedFiles[1].val = 2

\* The successful results of the list that carry a defined value for key.
Carriers(results, key) ==
    {i \in 1 .. Len(results) :
        /\ results[i].success
        /\ results[i].financial_data # Undefined
        /\ HasKey(results[i].financial_data.entries, key)
        /\ Lookup(results[i].financial_data.entries, key).value # Undefined}

\* C7: on the results page the aggregated metric of a key is the one of the
\* first successful result that carries a defined value for it.
C7_FirstWriterWins ==
    ResultsShown =>
        \A key \in {"Revenue"} :
            LET results == view.processingResults
                first == Carriers(results, key)
            IN  first # {} =>
                  /\ HasKey(GetFinancialData(results), key)
                  /\ Lookup(GetFinancialData(results), key) =
                        Lookup(results[Min(first)].financial_data.entries, key)

C7_Witness ==
    /\ ResultsShown
    /\ view.processingResults = <<PayloadRevenue, PayloadRevenueLater>>
    /\ Lookup(GetFinancialData(view.processingResults), "Revenue").value
          = JNum(1000)

\* C8: the summary of the results page shows the number of failed results as
\* its error count, the number of successful ones as its success count, and
\* the number of documents as its total.
C8_CountsDisplayed ==
    ResultsShown =>
        LET stats == GetUploadedFilesStats(view)
        IN  /\ stats.errorCount = CountWhere(view.processingResults, FALSE)
            /\ stats.successCount = CountWhere(view.processingResults, TRUE)
            /\ stats.count = Len(view.processingResults)

\* C9: a call that ends without a 2xx response is recorded as a result with
\* success = false whose error is the error text of the response body when
\* the body carries one, and otherwise the text made for the exception
\* ("Network error processing <file>" for an AxiosError, the exception's own
\* message for any other); the details panel of that result shows that text.
C9_FailureRecorded ==
    [][\A c \in inflight, o \in Outcomes :
          (Resolve(c, o) /\ o.kind # "response") =>
            LET recorded == ResultsAfter(c.run)[Len(runs[c.run].results) + 1]
                expected ==
                    IF o.kind = "thrown" THEN o.message
                    ELSE IF o.response # Undefined
                            /\ o.response.data.error # Undefined
                    THEN o.response.data.error.str
                    ELSE <<"Network error processing ", ToString(c.file)>>
            IN  /\ recorded.success = FALSE
                /\ recorded.error = JStr(expected)
                /\ DetailsAlert(recorded) = JStr(expected)]_vars

C9_Witness ==
    /\ ResultsShown
    /\ Len(view.processingResults) = 2
    /\ view.processingResults[1].success
    /\ view.processingResults[2] = ErrorResult(<<"E500">>)
    /\ DetailsAlert(view.processingResults[2]) = JStr(<<"E500">>)

\* C10 as stated: a call that ends with a 2xx response is recorded as a
\* result with success = true that is the parsed response body.
C10_ResponseRecordedAsSuccess ==
    [][\A c \in inflight, o \in Outcomes :
          (Resolve(c, o) /\ o.kind = "response") =>
            LET recorded == ResultsAfter(c.run)[Len(runs[c.run].results) + 1]
            IN  /\ recorded.success = TRUE
                /\ recorded = o.data]_vars

\* C10 as amended: a call that ends with a 2xx response is recorded as the
\* parsed response body, whose success flag is the one the body carries.
C10_ResponseRecordedVerbatim ==
    [][\A c \in inflight, o \in Outcomes :
          (Resolve(c, o) /\ o.kind = "response") =>
            LET recorded == ResultsAfter(c.run)[Len(runs[c.run].results) + 1]
            IN  /\ recorded = o.data
                /\ recorded.success = o.data.success]_vars

C10_Witness ==
    /\ ResultsShown
    /\ Len(view.processingResults) = 2
    /\ view.processingResults[1] = PayloadUnsuccessful
    /\ view.processingResults[2] = PayloadRevenueLater

\* The run of call c ends in this step with at least one failed result.
EndsWithFailure(c, o) ==
    /\ Resolve(c, o)
    /\ runs'[c.run].pc = "idle"
    /\ \E i \in 1 .. Len(ResultsAfter(c.run)) : ~ResultsAfter(c.run)[i].success

C12_ProcessingNeedsFiles ==
    [][( /\ UserNavigate(ProcessingRoute) \/ Reload(ProcessingRoute)
         /\ Len(win') = 0 )
       => /\ route' = UploadRoute
          /\ proc' = ProcInitial
          /\ inflight' \subseteq inflight
          /\ \A r \in RunIds : runs'[r].pc = "await" => runs[r].pc = "await"]_vars

\* The page was loaded at /processing-documents after a hand-off.
C12_Witness ==
    /\ requested = ProcessingRoute
    /\ route = UploadRoute
    /\ Len(win) = 0
    /\ ~Falsy(ss.uploadedFilesMetadata)

\* C13: every step in which the processing page hands over to /view-results
\* (its timer or its View Results button) finds processingResults and
\* processingComplete written in sessionStorage.
C13_HandoffAfterWrite ==
    [][(TimerNavigate \/ HandleManualContinue) =>
          /\ ~Falsy(ss.processingComplete)
          /\ ~Falsy(ss.processingResults)]_vars

\* The part of C13 that holds: the step of a run that writes the results and
\* the flag is the one that records the result of its last file.
C13_WriteAfterAllResolved ==
    [][\A r \in RunIds :
          (runs[r].pc = "await" /\ runs'[r].pc = "idle"
              /\ ss'.processingResults # ss.processingResults)
          => Len(JsonParse(ss'.processingResults.str)) = Len(runs[r].files)]_vars

\* C14: while the page's run has k of its N files recorded, the progress p
\* satisfies p * N = 10 * N + 90 * k and lies in 10 .. 100, with 100 exactly when
\* the run has ended; the progress of a mounted processing page never
\* decreases.
C14_ProgressFormula ==
    /\ [](\A r \in RunIds :
            (runs[r].pc = "await" /\ runs[r].attached) =>
                LET k == Len(runs[r].results)
                    N == Len(runs[r].files)
                    p == proc.processingProgress
                IN  /\ route = ProcessingRoute
                    /\ p * N = Percent(10) * N + Percent(90) * k
                    /\ Percent(10) <= p /\ p < Percent(100)
                    /\ k < N)
    /\ [](proc.processingComplete => proc.processingProgress = Percent(100))
    /\ [][(route = ProcessingRoute /\ route' = ProcessingRoute)
            => proc'.processingProgress >= proc.processingProgress]_vars

\* One of two files is recorded, as a failure: the progress is 55.
C14_Witness ==
    \E r \in RunIds :
        /\ runs[r].pc = "await" /\ runs[r].attached
        /\ Len(runs[r].files) = 2
        /\ Len(runs[r].results) = 1
        /\ ~runs[r].results[1].success
        /\ proc.processingProgress = Percent(55)

\* combinedData after the first i results of the list.
AggregateOf(results, i) == MergeResults(<< >>, SubSeq(results, 1, i), 1)

\* C15: result by result, a metric key of a successful result is stored when
\* the accumulator has no entry for it, or has one without a value while the
\* new one has a value; in every other case the accumulator's entry for the
\* key is left as it was.
C15_InsertRule ==
    ResultsShown =>
        \A i \in 1 .. Len(view.processingResults), key \in MetricKeys :
            LET result == view.processingResults[i]
                before == AggregateOf(view.processingResults, i - 1)
                after == AggregateOf(view.processingResults, i)
                offered == /\ result.success
                           /\ result.financial_data # Undefined
                           /\ HasKey(result.financial_data.entries, key)
                new == Lookup(result.financial_data.entries, key)
            IN  IF offered /\ (\/ ~HasKey(before, key)
                               \/ /\ Lookup(before, key).value = Undefined
                                  /\ new.value # Undefined)
                THEN HasKey(after, key) /\ Lookup(after, key) = new
                ELSE /\ HasKey(after, key) = HasKey(before, key)
                     /\ HasKey(before, key) =>
                           Lookup(after, key) = Lookup(before, key)

\* A metric without a value is followed by one with a value, which is stored.
C15_Witness ==
    /\ ResultsShown
    /\ view.processingResults = <<PayloadRevenueUndefined, PayloadRevenue>>
    /\ Lookup(AggregateOf(view.processingResults, 1), "Revenue").value = Undefined
    /\ Lookup(GetFinancialData(view.processingResults), "Revenue").value
          = JNum(1000)

\* C16: every metric of the aggregate is carried by a successful result of
\* the list, and the aggregate is the one of the list's successful results
\* alone, taken in their order.
C16_OnlySuccessfulContribute ==
    ResultsShown =>
        LET results == view.processingResults
            aggregate == GetFinancialData(results)
        IN  /\ \A j \in 1 .. Len(aggregate) :
                  \E i \in 1 .. Len(results) :
                      /\ results[i].success
                      /\ results[i].financial_data # Undefined
                      /\ HasKey(results[i].financial_data.entries, aggregate[j].key)
                      /\ Lookup(results[i].financial_data.entries, aggregate[j].key)
                            = aggregate[j].val
            /\ aggregate =
                  GetFinancialData(SelectSeq(results, LAMBDA r : r.success))

\* The failed result's Profit is not in the aggregate.
C16_Witness ==
    /\ ResultsShown
    /\ view.processingResults = <<PayloadFailedWithData, PayloadRevenue>>
    /\ ~HasKey(GetFinancialData(view.processingResults), "Profit")
    /\ HasKey(GetFinancialData(view.processingResults), "Revenue")

\* C17: the start-over step leaves uploadedFilesMetadata, processingResults
\* and processingComplete absent from sessionStorage, window.uploadedFiles
\* empty and the upload page shown; from the state it leaves, entering
\* /view-results or /processing-documents, in the application or by a page
\* load, ends on /upload-documents.
C17_StartOverClears ==
    [][HandleStartOver =>
          /\ ss'.uploadedFilesMetadata = Null
          /\ ss'.processingResults = Null
          /\ ss'.processingComplete = Null
          /\ Len(win') = 0
          /\ route' = UploadRoute
          /\ upload' = UploadInitial
          /\ \A t \in {ResultsRoute, ProcessingRoute} :
                /\ Navigate(Cur', t).route = UploadRoute
                /\ Navigate(Cur', t).inflight = inflight'
                /\ Mount(Loaded(t)').route = UploadRoute]_vars

\* A flow was run to its results and started over.
C17_Witness ==
    /\ route = UploadRoute
    /\ requested = UploadRoute
    /\ ss = EmptyStorage
    /\ Len(win) = 0
    /\ \E f \in FileIds : fileObj[f].calls >= 1

\* The files the upload widget holds.
HeldFiles(u) == {u.uploadedFiles[i].val : i \in 1 .. Len(u.uploadedFiles)}

WidgetStep ==
    \/ \E c \in DropTargets, a \in AcceptedFiles : OnDrop(c, a)
    \/ \E c \in FINANCIAL_CATEGORIES : HandleRemoveFile(c)
    \/ HandleUploadAll

\* C18: the preview of every file the upload widget holds is unreleased;
\* removing a file releases its preview in the same step, and no step of the
\* widget changes the set of unreleased previews of files it does not hold.
C18_PreviewReleased ==
    /\ [](route = UploadRoute => HeldFiles(upload) \subseteq previews)
    /\ [][/\ \A c \in FINANCIAL_CATEGORIES :
               HandleRemoveFile(c) =>
                  LET f == Lookup(upload.uploadedFiles, c)
                  IN  /\ f \in previews
                      /\ previews' = previews \ {f}
                      /\ f \notin HeldFiles(upload')
          /\ WidgetStep =>
               previews' \ HeldFiles(upload') = previews \ HeldFiles(upload)]_vars

\* A file was dropped and removed on this page: nothing is left unreleased.
C18_Witness ==
    /\ route = UploadRoute
    /\ nextId = 2
    /\ fileObj[1] = NoFile
    /\ Len(upload.uploadedFiles) = 0
    /\ previews = {}

\* C19: a category that holds a file keeps that file through every drop,
\* every removal from another category and the proceed action.
C19_NoReplacement ==
    [][\A c \in FINANCIAL_CATEGORIES :
          ( /\ HasKey(upload.uploadedFiles, c)
            /\ \/ \E d \in DropTargets, a \in AcceptedFiles : OnDrop(d, a)
               \/ \E d \in FINANCIAL_CATEGORIES \ {c} : HandleRemoveFile(d)
               \/ HandleUploadAll )
          => /\ HasKey(upload'.uploadedFiles, c)
             /\ Lookup(upload'.uploadedFiles, c) = Lookup(upload.uploadedFiles, c)
             /\ fileObj'[Lookup(upload.uploadedFiles, c)]
                   = fileObj[Lookup(upload.uploadedFiles, c)]]_vars

\* The first file is still held after a drop into the other category.
C19_Witness ==
    /\ route = UploadRoute
    /\ Len(upload.uploadedFiles) = 2
    /\ upload.uploadedFiles[1].val = 1
    /\ upload.uploadedFiles[2].val = 2
    /\ fileObj[1].category # fileObj[2].category

\* C20: on the upload page the proceed action can be taken exactly when the
\* widget holds a file and is not uploading; every pending hand-off carries
\* at least one file, and the processing page is never shown with an empty
\* window.uploadedFiles.
C20_ProceedNeedsFile ==
    /\ route = UploadRoute =>
          (ENABLED HandleUploadAll
              <=> (Len(upload.uploadedFiles) > 0 /\ ~upload.uploading))
    /\ route # UploadRoute => ~ENABLED HandleUploadAll
    /\ \A i \in 1 .. Len(handoffs) : Len(handoffs[i].files) >= 1
    /\ route = ProcessingRoute => Len(win) >= 1

\* A hand-off is pending: the proceed action is disabled though a file is held.
C20_Witness ==
    /\ route = UploadRoute
    /\ upload.uploading
    /\ Len(upload.uploadedFiles) = 1
    /\ Len(handoffs) = 1
    /\ ~ENABLED HandleUploadAll

C22_RevenueDisplayed ==
    (ResultsShown /\ view.processingResults = <<PayloadRevenue>>) =>
        LET financialData == GetFinancialData(view.processingResults)
        IN  /\ HasKey(financialData, "Revenue")
            /\ Lookup(financialData, "Revenue").value = JNum(1000)
            /\ MetricCards(financialData) =
                  <<[label |-> <<"R", "e", "v", "e", "n", "u", "e">>,
                     text |-> <<"$", "1", ",", "0", "0", "0">>]>>

\* One file was collected for cash-flow, its one call was answered with the
\* payload, and the results page shows the outcome.
C22_Witness ==
    /\ ResultsShown
    /\ view.processingResults = <<PayloadRevenue>>
    /\ Len(win) = 1
    /\ fileObj[win[1]].category = "cash-flow"
    /\ fileObj[win[1]].calls = 1
    /\ nextId = 2
    /\ inflight = {}

\* C23: whenever the results page is shown, the series of the stacked
\* inflow/outflow chart and of the waterfall chart are those of the sample
\* data.
C23_ChartsShowSampleSeries ==
    ResultsShown =>
        /\ StackedAreaData(ResultsChartsData) = StackedAreaData(SampleData)
        /\ CreateWaterfallData(ResultsChartsData) = CreateWaterfallData(SampleData)

\* What holds instead: the two charts get empty series, whatever was
\* extracted.
C23_ChartsAreEmpty ==
    ResultsShown =>
        /\ StackedAreaData(ResultsChartsData) =
              [labels |-> << >>,
               datasets |-> <<<< >>, << >>, << >>, << >>, << >>, << >>>>]
        /\ CreateWaterfallData(ResultsChartsData) =
              [labels |-> << >>, datasets |-> <<<< >>>>]

\* C24: when /view-results was requested with processingComplete stored and
\* a stored value that does not parse, or no processingResults, the results
\* page stays, its loading has ended, the error banner is shown, and no
\* results are displayed.
C24_LoadFailureShown ==
    LET filesThrow == ~Falsy(ss.uploadedFiles) /\ ~WellFormed(ss.uploadedFiles.str)
        resultsThrow ==
            ~Falsy(ss.processingResults) /\ ~WellFormed(ss.processingResults.str)
        missing == Falsy(ss.processingResults)
    IN  (/\ requested = ResultsRoute
         /\ ~Falsy(ss.processingComplete)
         /\ (filesThrow \/ resultsThrow \/ missing)) =>
            /\ route = ResultsRoute
            /\ ~view.isLoading
            /\ Banner(view) =
                  [severity |-> "error",
                   text |-> IF ~filesThrow /\ missing THEN NoResultsError
                            ELSE LoadFailedError]
            /\ view.processingResults = << >>
            /\ MetricCards(GetFinancialData(view.processingResults)) = << >>

\* The stored results do not parse and the page shows the failure.
C24_Witness ==
    /\ route = ResultsRoute
    /\ ~Falsy(ss.processingComplete)
    /\ ss.processingResults = JStr(UnparsableText)
    /\ ss.uploadedFiles = Null
    /\ Banner(view) = [severity |-> "error", text |-> LoadFailedError]

\* C25: no file object is ever the subject of more than one remote call,
\* whatever pages are visited in between: a file is marked processed by the
\* time its call is in flight, and a marked file is not sent again, whether
\* its call succeeded or failed.
C25_AtMostOneCall ==
    /\ \A f \in FileIds :
          /\ fileObj[f].calls <= 1
          /\ fileObj[f].calls = 1 => fileObj[f].processed
    /\ \A c \in inflight : fileObj[c.file].processed /\ fileObj[c.file].calls = 1

\* The call of the only file failed, the processing page was opened again,
\* and no second call was sent.
C25_Witness ==
    /\ route = ProcessingRoute
    /\ Len(win) = 1
    /\ fileObj[win[1]].calls = 1
    /\ inflight = {}
    /\ proc.results = << >>
    /\ ~proc.isProcessing
    /\ navTimer
    /\ ~Falsy(ss.processingResults)
    /\ ~JsonParse(ss.processingResults.str)[1].success

\* C26: while the document stays loaded and every remote call ends, a run
\* that is waiting for a call is followed by a state in which the run has
\* ended, processingComplete is stored and the route is /view-results.
C26_RunCompletes ==
    \A r \in RunIds :
        (runs[r].pc = "await") ~>
            (/\ runs[r].pc = "idle"
             /\ ~Falsy(ss.processingComplete)
             /\ route = ResultsRoute)

\* A run over two files has ended and its timer has opened the results.
C26_Witness ==
    /\ route = ResultsRoute
    /\ ~view.isLoading
    /\ Len(view.processingResults) = MaxFiles
    /\ \A r \in RunIds : runs[r].pc = "idle"
    /\ ~navTimer
    /\ \A f \in FileIds : fileObj[f].calls = 1

\* The files of the most recent hand-off (window.uploadedFiles).
HandedOff == {win[i] : i \in 1 .. Len(win)}

\* C27: after a file of an earlier hand-off was processed and new files were
\* handed off (without start over), the results page displays no results
\* while a file of the new hand-off is still unprocessed or still has its
\* call in flight.
C27_OnlyLatestHandoffShown ==
    (/\ ResultsShown
     /\ Len(view.processingResults) > 0
     /\ HandedOff # {}
     /\ \E f \in FileIds \ HandedOff : fileObj[f].calls = 1) =>
        /\ \A f \in HandedOff : fileObj[f].processed
        /\ \A c \in inflight : c.file \notin HandedOff

\* processingComplete is stored only with processingResults.
FlagHasResults(storage) ==
    ~Falsy(storage.processingComplete) => ~Falsy(storage.processingResults)

\* C28: in every reachable state of sessionStorage the presence of
\* processingComplete implies the presence of processingResults, and so it
\* does in the storage after each single write at the end of a run and after
\* each single removal of start over.
C28_FlagImpliesResults ==
    /\ [] FlagHasResults(ss)
    /\ [][/\ \A c \in inflight, o \in Outcomes :
                (Resolve(c, o) /\ runs'[c.run].pc = "idle") =>
                    LET writes == WriteCompletion(ss, ResultsAfter(c.run))
                    IN  /\ \A i \in 1 .. Len(writes) : FlagHasResults(writes[i])
                        /\ ss' = writes[Len(writes)]
          /\ HandleStartOver =>
                LET removals == ClearSession(ss)
                IN  /\ \A i \in 1 .. Len(removals) : FlagHasResults(removals[i])
                    /\ ss' = removals[Len(removals)]]_vars

\* A run has just written its results and the flag; the timer is pending.
C28_Witness ==
    /\ route = ProcessingRoute
    /\ navTimer
    /\ proc.processingComplete
    /\ proc.results = <<PayloadRevenueLater>>
    /\ ss.processingComplete = JStr(<<"true">>)
    /\ ss.processingResults = JStr(JsonStringify(<<PayloadRevenueLater>>))

C30_NoTriggerWhilePending ==
    Len(handoffs) > 0 =>
        /\ ~ENABLED HandleUploadAll
        /\ \A c \in FINANCIAL_CATEGORIES : ~ENABLED HandleRemoveFile(c)

\* What holds of each trigger and of each hand-off: a trigger adds exactly
\* one pending hand-off, whose list is the files held at that moment, and
\* disables proceed and Remove on the widget that was clicked; the timer
\* hands exactly that list over, with one metadata entry per file.
C30_HandoffListIsCollectedSet ==
    /\ [][HandleUploadAll =>
             /\ Len(handoffs') = Len(handoffs) + 1
             /\ handoffs'[Len(handoffs')].files = ObjectValues(upload.uploadedFiles)
             /\ SubSeq(handoffs', 1, Len(handoffs)) = handoffs
             /\ ~(ENABLED HandleUploadAll)'
             /\ \A c \in FINANCIAL_CATEGORIES : ~(ENABLED HandleRemoveFile(c))']_vars
    /\ [][HandoffTimer =>
             LET files == Head(handoffs).files
                 metadata == JsonParse(ss'.uploadedFilesMetadata.str)
             IN  /\ win' = files
                 /\ Len(handoffs') = Len(handoffs) - 1
                 /\ \A i \in 1 .. Len(handoffs') :
                       handoffs'[i].files = handoffs[i + 1].files
                 /\ Len(metadata) = Len(files)
                 /\ \A i \in 1 .. Len(files) :
                       /\ metadata[i].id = files[i]
                       /\ metadata[i].category = fileObj[files[i]].category]_vars
    /\ [] (\A i \in 1 .. Len(handoffs) :
              handoffs[i].attached => upload.uploading)

====
